---- MODULE Spec2Model ----
(***************************************************************************)
(* Model of the tasks plugin's web routes (src/routes/web/index.js): the   *)
(* store of task lists and tasks, the Express router that dispatches a     *)
(* request to the first registered route matching it, and one action per   *)
(* route handler.                                                          *)
(*                                                                         *)
(*   Spec      the handlers invoked directly as commands, each running     *)
(*             from its first line to its response without interleaving    *)
(*   SpecHttp  the same handlers behind the router: a request is a method  *)
(*             and a path, served by the first route that matches          *)
(*   SpecRace  two requests in flight (creates, list-delete, bootstrap),   *)
(*             interleaved at their store calls                            *)
(*   SpecReorder  two reorders in flight, interleaved at their store calls *)
(*             with each other and with the writes of creates and deletes  *)
(*   SpecAppend  creates and deletes only, with more rows created          *)
(***************************************************************************)
EXTENDS Integers, Sequences, FiniteSets, TLC

VARIABLES
  lists,        \* rows of prisma.taskList
  tasks,        \* rows of prisma.task
  nextListId,   \* the id the store assigns to the next list row
  nextTaskId,   \* the id the store assigns to the next task row
  last,         \* the handler that responded last, and its response
  calls         \* SpecRace, SpecReorder: the requests in flight, one per connection

vars == <<lists, tasks, nextListId, nextTaskId, last, calls>>

(***************************************************************************)
(* Bounds of the model.                                                    *)
(***************************************************************************)
MaxLists == 2     \* list rows created in one behaviour
MaxTasks == 2     \* task rows created in one behaviour
MaxOrder == 2     \* entries of a submitted order array

(***************************************************************************)
(* JavaScript values of a request: a tag, and the number, string or array  *)
(* the value holds.                                                        *)
(***************************************************************************)
Undef == [t |-> "undefined", n |-> 0, s |-> "", a |-> <<>>]
Null == [t |-> "null", n |-> 0, s |-> "", a |-> <<>>]
Num(k) == [t |-> "number", n |-> k, s |-> "", a |-> <<>>]
NaN == [t |-> "number", n |-> 0, s |-> "NaN", a |-> <<>>]
Str(x) == [t |-> "string", n |-> 0, s |-> x, a |-> <<>>]
Bool(b) == [t |-> "boolean", n |-> IF b THEN 1 ELSE 0, s |-> "", a |-> <<>>]
Arr(items) == [t |-> "array", n |-> 0, s |-> "", a |-> items]

\* The decimal strings of the model and the numbers they denote.
DecimalStrings == ("0" :> 0) @@ ("1" :> 1) @@ ("2" :> 2) @@ ("3" :> 3) @@ ("4" :> 4) @@ ("5" :> 5)

\* Number(string): the empty string is 0, a decimal string its number,
\* any other string of the model ("order", "x") is NaN.
StringToNumber(x) ==
  IF x = "" THEN Num(0)
  ELSE IF x \in DOMAIN DecimalStrings THEN Num(DecimalStrings[x])
  ELSE NaN

\* Number(v)
ToNumber(v) ==
  CASE v.t = "undefined" -> NaN
    [] v.t = "null" -> Num(0)
    [] v.t = "number" -> v
    [] v.t = "boolean" -> Num(v.n)
    [] v.t = "string" -> StringToNumber(v.s)
    [] v.t = "array" ->
         IF Len(v.a) = 0 THEN Num(0)
         ELSE IF Len(v.a) > 1 THEN NaN
         ELSE CASE v.a[1].t \in {"undefined", "null"} -> Num(0)
                [] v.a[1].t = "number" -> v.a[1]
                [] v.a[1].t = "string" -> StringToNumber(v.a[1].s)
                [] OTHER -> NaN

\* Number.isFinite(x) for a number x
IsFinite(x) == x.t = "number" /\ x.s # "NaN"

\* !!v
Truthy(v) ==
  CASE v.t \in {"undefined", "null"} -> FALSE
    [] v.t = "number" -> v.s # "NaN" /\ v.n # 0
    [] v.t = "boolean" -> v.n = 1
    [] v.t = "string" -> v.s # ""
    [] v.t = "array" -> TRUE

\* typeof v === "string"
IsString(v) == v.t = "string"

\* typeof v !== "undefined"
IsDefined(v) == v.t # "undefined"

\* Array.isArray(v)
IsArray(v) == v.t = "array"

\* name.toLowerCase().replace(/\s+/g, "-") on the list names of the model
SlugTable == ("My  List" :> "my-list") @@ ("Work" :> "work") @@ ("x" :> "x")

Slugify(name) == SlugTable[name]

(***************************************************************************)
(* Requests.                                                               *)
(***************************************************************************)
Nil == ""
Users == {"u1", "u2"}

\* What the host application attached to the request: req.user.id,
\* req.userId, req.session.userId (Nil: absent).
Auth(user, userId, session) == [user |-> user, userId |-> userId, session |-> session]

getUserId(req) ==
  IF req.auth.user # Nil THEN req.auth.user
  ELSE IF req.auth.userId # Nil THEN req.auth.userId
  ELSE IF req.auth.session # Nil THEN req.auth.session
  ELSE Nil

\* req.body || {}: every field a handler destructures, absent ones undefined
NoBody ==
  [name |-> Undef, slug |-> Undef, listOrder |-> Undef, listId |-> Undef,
   title |-> Undef, description |-> Undef, dueDate |-> Undef,
   recurringConfig |-> Undef, completed |-> Undef, starred |-> Undef,
   position |-> Undef, taskOrder |-> Undef]

\* A request as a handler sees it: req.params.id, req.query.listId, req.body
Request(auth, id, listId, body) ==
  [auth |-> auth, params |-> [id |-> id], query |-> [listId |-> listId], body |-> body]

(***************************************************************************)
(* The store: the rows of the two tables and the queries the handlers      *)
(* issue against them.                                                     *)
(***************************************************************************)
ListRow(id, userId, name, slug, position) ==
  [id |-> id, userId |-> userId, name |-> name, slug |-> slug, position |-> position]

TaskRow(id, userId, listId, title, description, dueDate, recurringConfig, completed, starred, position) ==
  [id |-> id, userId |-> userId, listId |-> listId, title |-> title,
   description |-> description, dueDate |-> dueDate,
   recurringConfig |-> recurringConfig, completed |-> completed,
   starred |-> starred, position |-> position]

\* new Date(v) of a date string
ToDate(v) == [t |-> "date", n |-> 0, s |-> v.s, a |-> <<>>]

\* The constraints the store itself puts on a write: the schema is not part
\* of the sources; the store contract (spec section 6) names keyed tables,
\* store-assigned ids and transactions, and no constraint between the tables.
StoreAccepts(ls, ts) == TRUE

\* prisma.taskList.findFirst({ where: { id, userId } }): the rows found
FindList(ls, id, userId) == {l \in ls : l.id = id /\ l.userId = userId}

\* A faulty variant of FindTask: where: { id }, the owner not asked for
FindTaskOfAnyUser(ts, id, userId) == {t \in ts : t.id = id}

\* prisma.task.findFirst({ where: { id, userId } }): the rows found
FindTask(ts, id, userId) == {t \in ts : t.id = id /\ t.userId = userId}

\* prisma.taskList.count({ where: { userId } })
CountLists(ls, userId) == Cardinality({l \in ls : l.userId = userId})

\* prisma.task.count({ where: { userId, listId } })
CountTasks(ts, userId, listId) ==
  Cardinality({t \in ts : t.userId = userId /\ t.listId = listId})

\* orderBy: [{ position: "asc" }, { id: "asc" }]
ListBefore(x, y) == x.position < y.position \/ (x.position = y.position /\ x.id < y.id)

\* orderBy: [{ listId: "asc" }, { position: "asc" }, { id: "asc" }]
TaskBefore(x, y) ==
  \/ x.listId < y.listId
  \/ x.listId = y.listId /\ x.position < y.position
  \/ x.listId = y.listId /\ x.position = y.position /\ x.id < y.id

RECURSIVE OrderLists(_)
OrderLists(rows) ==
  IF rows = {} THEN <<>>
  ELSE LET first == CHOOSE x \in rows : \A y \in rows \ {x} : ListBefore(x, y)
       IN <<first>> \o OrderLists(rows \ {first})

RECURSIVE OrderTasks(_)
OrderTasks(rows) ==
  IF rows = {} THEN <<>>
  ELSE LET first == CHOOSE x \in rows : \A y \in rows \ {x} : TaskBefore(x, y)
       IN <<first>> \o OrderTasks(rows \ {first})

\* prisma.taskList.findMany({ where: { userId }, orderBy })
FindLists(ls, userId) == OrderLists({l \in ls : l.userId = userId})

\* prisma.task.findMany({ where, orderBy }): where.listId is set only when
\* the query names a list (byList)
FindTasks(ts, userId, byList, listId) ==
  OrderTasks({t \in ts : t.userId = userId /\ (byList => t.listId = listId)})

\* listOrder.map((v) => Number(v)), the numbers as integers
RECURSIVE MapNumber(_)
MapNumber(items) ==
  IF items = <<>> THEN <<>>
  ELSE <<ToNumber(Head(items)).n>> \o MapNumber(Tail(items))

\* listOrder.some((v) => !Number.isFinite(Number(v)))
SomeNotFinite(items) == \E i \in 1..Len(items) : ~IsFinite(ToNumber(items[i]))

\* ids.filter((id) => !existingIds.has(id))
RECURSIVE Missing(_, _)
Missing(ids, existingIds) ==
  IF ids = <<>> THEN <<>>
  ELSE (IF Head(ids) \in existingIds THEN <<>> ELSE <<Head(ids)>>)
       \o Missing(Tail(ids), existingIds)

\* prisma.taskList.findMany({ where: { userId, id: { in: ids } }, select: { id } })
ExistingListIds(ls, userId, ids) ==
  {l.id : l \in {x \in ls : x.userId = userId /\ \E i \in 1..Len(ids) : ids[i] = x.id}}

\* A faulty variant of ExistingTaskIds: where: { id: { in: ids } }, the owner not asked for
ExistingTaskIdsOfAnyUser(ts, userId, ids) ==
  {t.id : t \in {x \in ts : \E i \in 1..Len(ids) : ids[i] = x.id}}

\* prisma.task.findMany({ where: { userId, id: { in: ids } }, select: { id } })
ExistingTaskIds(ts, userId, ids) ==
  {t.id : t \in {x \in ts : x.userId = userId /\ \E i \in 1..Len(ids) : ids[i] = x.id}}

\* A faulty variant of SetListPositions: data: { position: index + 1 }
SetListPositionsFromOne(ls, ids, index) ==
  {IF \E i \in 1..Len(ids) : ids[i] = l.id
     THEN [l EXCEPT !.position = CHOOSE i \in 1..Len(ids) :
                                   ids[i] = l.id /\ \A j \in (i + 1)..Len(ids) : ids[j] # l.id]
     ELSE l : l \in ls}

\* prisma.taskList.update({ where: { id }, data: { position: index } }) for
\* the ids from index on, in the order of the array (index is 0-based)
RECURSIVE SetListPositions(_, _, _)
SetListPositions(ls, ids, index) ==
  IF index >= Len(ids) THEN ls
  ELSE SetListPositions(
         {IF l.id = ids[index + 1] THEN [l EXCEPT !.position = index] ELSE l : l \in ls},
         ids, index + 1)

\* A faulty variant of SetTaskPositions: data: { listId, position: index + 1 }
SetTaskPositionsFromOne(ts, ids, listId, index) ==
  {IF \E i \in 1..Len(ids) : ids[i] = t.id
     THEN [t EXCEPT !.listId = listId,
                    !.position = CHOOSE i \in 1..Len(ids) :
                                   ids[i] = t.id /\ \A j \in (i + 1)..Len(ids) : ids[j] # t.id]
     ELSE t : t \in ts}

\* A faulty variant of SetTaskPositions: the tasks of the target list that
\* the order leaves out are put behind the listed ones.
SetTaskPositionsAppendingOmitted(ts, ids, listId, index) ==
  {IF \E i \in 1..Len(ids) : ids[i] = t.id
     THEN [t EXCEPT !.listId = listId,
                    !.position = (CHOOSE i \in 1..Len(ids) :
                                    ids[i] = t.id /\ \A j \in (i + 1)..Len(ids) : ids[j] # t.id) - 1]
     ELSE IF t.listId = listId THEN [t EXCEPT !.position = Len(ids)] ELSE t : t \in ts}

\* prisma.task.update({ where: { id }, data: { listId, position: index } })
\* for the ids from index on
RECURSIVE SetTaskPositions(_, _, _, _)
SetTaskPositions(ts, ids, listId, index) ==
  IF index >= Len(ids) THEN ts
  ELSE SetTaskPositions(
         {IF t.id = ids[index + 1]
            THEN [t EXCEPT !.listId = listId, !.position = index] ELSE t : t \in ts},
         ids, listId, index + 1)

\* An update of the batch names a row that is not there: prisma.*.update
\* throws and the transaction rolls back.
UpdateOfMissingRow(rows, ids) == \E i \in 1..Len(ids) : \A r \in rows : r.id # ids[i]

(***************************************************************************)
(* Responses.  last holds the handler that answered, the caller it         *)
(* resolved, the HTTP status and the JSON body.                            *)
(***************************************************************************)
NoResp ==
  [error |-> "", missing |-> <<>>, ok |-> FALSE, deletedCount |-> 0,
   item |-> {}, lists |-> <<>>, tasks |-> <<>>]

Response(op, caller, status, body) ==
  [op |-> op, caller |-> caller, status |-> status, body |-> body]

\* What a handler does: the rows it leaves in the two tables, the ids the
\* store assigns next, and its response.
Effect(ls, ts, nl, nt, resp) ==
  [lists |-> ls, tasks |-> ts, nextListId |-> nl, nextTaskId |-> nt, last |-> resp]

\* res.status(status).json({ error }) before any write
Reject(op, caller, status, error) ==
  Effect(lists, tasks, nextListId, nextTaskId,
         Response(op, caller, status, [NoResp EXCEPT !.error = error]))

\* A read and its response
Answer(op, caller, body) ==
  Effect(lists, tasks, nextListId, nextTaskId, Response(op, caller, 200, body))

\* A write (one statement or one transaction) and the response after it;
\* a write the store refuses throws, asyncHandler passes the error on and
\* the request ends with status 500 and nothing written.
Write(op, caller, status, body, ls, ts, nl, nt) ==
  IF StoreAccepts(ls, ts)
    THEN Effect(ls, ts, nl, nt, Response(op, caller, status, body))
    ELSE Reject(op, caller, 500, "Internal Server Error")

(***************************************************************************)
(* The route handlers, each from its first line to its response.           *)
(***************************************************************************)

\* GET /api/tasks/bootstrap
Bootstrap(req) ==
  LET userId == getUserId(req) IN
  IF userId = Nil THEN Reject("bootstrap", userId, 401, "Unauthorized")
  ELSE Answer("bootstrap", userId,
              [NoResp EXCEPT !.lists = FindLists(lists, userId),
                             !.tasks = FindTasks(tasks, userId, FALSE, 0)])

\* GET /api/tasks/lists
ListIndex(req) ==
  LET userId == getUserId(req) IN
  IF userId = Nil THEN Reject("listIndex", userId, 401, "Unauthorized")
  ELSE Answer("listIndex", userId, [NoResp EXCEPT !.lists = FindLists(lists, userId)])

\* prisma.taskList.create with position: count, and the 201 response
ListCreateInsert(req, count) ==
  LET userId == getUserId(req)
      name == req.body.name
      slug == req.body.slug
      created == ListRow(nextListId, userId, name.s,
                         IF Truthy(slug) /\ IsString(slug) THEN slug.s ELSE Slugify(name.s),
                         count)
  IN Write("listCreate", userId, 201, [NoResp EXCEPT !.item = {created}],
           lists \cup {created}, tasks, nextListId + 1, nextTaskId)

\* POST /api/tasks/lists
ListCreate(req) ==
  LET userId == getUserId(req)
      name == req.body.name
  IN
  IF userId = Nil THEN Reject("listCreate", userId, 401, "Unauthorized")
  ELSE IF ~Truthy(name) \/ ~IsString(name)
    THEN Reject("listCreate", userId, 400, "name is required")
  ELSE ListCreateInsert(req, CountLists(lists, userId))

\* PUT /api/tasks/lists/:id
ListUpdate(req) ==
  LET userId == getUserId(req)
      id == ToNumber(Str(req.params.id))
      name == req.body.name
      slug == req.body.slug
  IN
  IF userId = Nil THEN Reject("listUpdate", userId, 401, "Unauthorized")
  ELSE IF ~IsFinite(id) THEN Reject("listUpdate", userId, 400, "Invalid id")
  ELSE IF FindList(lists, id.n, userId) = {}
    THEN Reject("listUpdate", userId, 404, "List not found")
  ELSE LET existing == CHOOSE l \in FindList(lists, id.n, userId) : TRUE
           updated == [existing EXCEPT
                         !.name = IF IsString(name) THEN name.s ELSE existing.name,
                         !.slug = IF IsString(slug) THEN slug.s ELSE existing.slug]
       IN Write("listUpdate", userId, 200, [NoResp EXCEPT !.item = {updated}],
                   {IF l.id = id.n THEN updated ELSE l : l \in lists}, tasks, nextListId, nextTaskId)

\* The transaction of DELETE /api/tasks/lists/:id:
\* task.deleteMany({ where: { listId: id, userId } }), taskList.delete({ where: { id } })
DeleteListTasks(ts, id, userId) == {t \in ts : ~(t.listId = id /\ t.userId = userId)}

DeleteListRow(ls, id) == {l \in ls : l.id # id}

\* prisma.$transaction([task.deleteMany, taskList.delete]) and the response
\* after it; taskList.delete of a row that is not there throws and the
\* transaction rolls back.
ListDeleteTransaction(req) ==
  LET userId == getUserId(req)
      id == ToNumber(Str(req.params.id))
  IN IF \A l \in lists : l.id # id.n
       THEN Reject("listDelete", userId, 500, "Internal Server Error")
       ELSE Write("listDelete", userId, 200, [NoResp EXCEPT !.ok = TRUE],
                  DeleteListRow(lists, id.n), DeleteListTasks(tasks, id.n, userId),
                  nextListId, nextTaskId)

\* DELETE /api/tasks/lists/:id
ListDelete(req) ==
  LET userId == getUserId(req)
      id == ToNumber(Str(req.params.id))
  IN
  IF userId = Nil THEN Reject("listDelete", userId, 401, "Unauthorized")
  ELSE IF ~IsFinite(id) THEN Reject("listDelete", userId, 400, "Invalid id")
  ELSE IF FindList(lists, id.n, userId) = {}
    THEN Reject("listDelete", userId, 404, "List not found")
  ELSE ListDeleteTransaction(req)

\* prisma.$transaction(ids.map(taskList.update)) and the response after it;
\* an update of a row that is not there throws and the transaction rolls
\* back.
ListReorderTransaction(req) ==
  LET userId == getUserId(req)
      ids == MapNumber(req.body.listOrder.a)
  IN IF UpdateOfMissingRow(lists, ids)
       THEN Reject("listReorder", userId, 500, "Internal Server Error")
       ELSE Write("listReorder", userId, 200, [NoResp EXCEPT !.ok = TRUE],
                  SetListPositions(lists, ids, 0), tasks, nextListId, nextTaskId)

\* PUT /api/tasks/lists/order
ListReorder(req) ==
  LET userId == getUserId(req)
      listOrder == req.body.listOrder
  IN
  IF userId = Nil THEN Reject("listReorder", userId, 401, "Unauthorized")
  ELSE IF ~IsArray(listOrder) \/ SomeNotFinite(listOrder.a)
    THEN Reject("listReorder", userId, 400, "listOrder must be an array of ids")
  ELSE LET ids == MapNumber(listOrder.a)
           missing == Missing(ids, ExistingListIds(lists, userId, ids))
       IN IF Len(missing) > 0
            THEN Effect(lists, tasks, nextListId, nextTaskId,
                        Response("listReorder", userId, 400,
                                 [NoResp EXCEPT
                                    !.error = "Some lists do not exist or do not belong to user",
                                    !.missing = missing]))
            ELSE ListReorderTransaction(req)

\* GET /api/tasks
TaskIndex(req) ==
  LET userId == getUserId(req)
      listIdParam == req.query.listId
      listId == ToNumber(listIdParam)
  IN
  IF userId = Nil THEN Reject("taskIndex", userId, 401, "Unauthorized")
  ELSE IF IsDefined(listIdParam) /\ ~IsFinite(listId)
    THEN Reject("taskIndex", userId, 400, "Invalid listId")
  ELSE Answer("taskIndex", userId,
              [NoResp EXCEPT !.tasks = FindTasks(tasks, userId, IsDefined(listIdParam), listId.n)])

\* prisma.task.create with position: countInList, and the 201 response
TaskCreateInsert(req, countInList) ==
  LET userId == getUserId(req)
      b == req.body
      created == TaskRow(nextTaskId, userId, ToNumber(b.listId).n, b.title.s,
                         IF IsString(b.description) THEN b.description ELSE Null,
                         IF Truthy(b.dueDate) THEN ToDate(b.dueDate) ELSE Null,
                         IF Truthy(b.recurringConfig) THEN b.recurringConfig ELSE Null,
                         FALSE, Truthy(b.starred), countInList)
  IN Write("taskCreate", userId, 201, [NoResp EXCEPT !.item = {created}],
           lists, tasks \cup {created}, nextListId, nextTaskId + 1)

\* POST /api/tasks
TaskCreate(req) ==
  LET userId == getUserId(req)
      b == req.body
      parsedListId == ToNumber(b.listId)
  IN
  IF userId = Nil THEN Reject("taskCreate", userId, 401, "Unauthorized")
  ELSE IF ~IsFinite(parsedListId)
    THEN Reject("taskCreate", userId, 400, "listId is required and must be a number")
  ELSE IF ~Truthy(b.title) \/ ~IsString(b.title)
    THEN Reject("taskCreate", userId, 400, "title is required")
  ELSE IF FindList(lists, parsedListId.n, userId) = {}
    THEN Reject("taskCreate", userId, 404, "List not found")
  ELSE TaskCreateInsert(req, CountTasks(tasks, userId, parsedListId.n))

\* A faulty variant of PatchTask: a move to another list also resets data.position to 0
PatchTaskResettingPosition(existing, b) ==
  [existing EXCEPT
     !.listId = IF IsDefined(b.listId) THEN ToNumber(b.listId).n ELSE @,
     !.title = IF IsString(b.title) THEN b.title.s ELSE @,
     !.description = IF IsDefined(b.description)
                       THEN (IF IsString(b.description) THEN b.description ELSE Null)
                       ELSE @,
     !.dueDate = IF IsDefined(b.dueDate)
                   THEN (IF Truthy(b.dueDate) THEN ToDate(b.dueDate) ELSE Null)
                   ELSE @,
     !.recurringConfig = IF IsDefined(b.recurringConfig)
                           THEN (IF Truthy(b.recurringConfig) THEN b.recurringConfig ELSE Null)
                           ELSE @,
     !.completed = IF IsDefined(b.completed) THEN Truthy(b.completed) ELSE @,
     !.starred = IF IsDefined(b.starred) THEN Truthy(b.starred) ELSE @,
     !.position = IF IsDefined(b.position) THEN ToNumber(b.position).n
                  ELSE IF IsDefined(b.listId) THEN 0 ELSE @]

\* const data = {} and the fields PUT /api/tasks/:id copies into it from
\* the body, applied to the row: prisma.task.update({ where: { id }, data })
PatchTask(existing, b) ==
  [existing EXCEPT
     !.listId = IF IsDefined(b.listId) THEN ToNumber(b.listId).n ELSE @,
     !.title = IF IsString(b.title) THEN b.title.s ELSE @,
     !.description = IF IsDefined(b.description)
                       THEN (IF IsString(b.description) THEN b.description ELSE Null)
                       ELSE @,
     !.dueDate = IF IsDefined(b.dueDate)
                   THEN (IF Truthy(b.dueDate) THEN ToDate(b.dueDate) ELSE Null)
                   ELSE @,
     !.recurringConfig = IF IsDefined(b.recurringConfig)
                           THEN (IF Truthy(b.recurringConfig) THEN b.recurringConfig ELSE Null)
                           ELSE @,
     !.completed = IF IsDefined(b.completed) THEN Truthy(b.completed) ELSE @,
     !.starred = IF IsDefined(b.starred) THEN Truthy(b.starred) ELSE @,
     !.position = IF IsDefined(b.position) THEN ToNumber(b.position).n ELSE @]

\* A faulty variant of TaskUpdate: the position is validated after the
\* other fields of the body have been written.
TaskUpdateValidatingPositionLate(req) ==
  LET userId == getUserId(req)
      id == ToNumber(Str(req.params.id))
      b == req.body
  IN
  IF userId = Nil THEN Reject("taskUpdate", userId, 401, "Unauthorized")
  ELSE IF ~IsFinite(id) THEN Reject("taskUpdate", userId, 400, "Invalid id")
  ELSE IF FindTask(tasks, id.n, userId) = {}
    THEN Reject("taskUpdate", userId, 404, "Task not found")
  ELSE IF IsDefined(b.listId) /\ ~IsFinite(ToNumber(b.listId))
    THEN Reject("taskUpdate", userId, 400, "Invalid listId")
  ELSE LET existing == CHOOSE t \in FindTask(tasks, id.n, userId) : TRUE
           early == PatchTask(existing, [b EXCEPT !.position = Undef])
           updated == PatchTask(existing, b)
       IN IF IsDefined(b.position) /\ ~IsFinite(ToNumber(b.position))
            THEN Effect(lists, {IF t.id = id.n THEN early ELSE t : t \in tasks},
                        nextListId, nextTaskId,
                        Response("taskUpdate", userId, 400,
                                 [NoResp EXCEPT !.error = "Invalid position"]))
            ELSE Write("taskUpdate", userId, 200, [NoResp EXCEPT !.item = {updated}],
                       lists, {IF t.id = id.n THEN updated ELSE t : t \in tasks},
                       nextListId, nextTaskId)

\* PUT /api/tasks/:id
TaskUpdate(req) ==
  LET userId == getUserId(req)
      id == ToNumber(Str(req.params.id))
      b == req.body
  IN
  IF userId = Nil THEN Reject("taskUpdate", userId, 401, "Unauthorized")
  ELSE IF ~IsFinite(id) THEN Reject("taskUpdate", userId, 400, "Invalid id")
  ELSE IF FindTask(tasks, id.n, userId) = {}
    THEN Reject("taskUpdate", userId, 404, "Task not found")
  ELSE IF IsDefined(b.listId) /\ ~IsFinite(ToNumber(b.listId))
    THEN Reject("taskUpdate", userId, 400, "Invalid listId")
  ELSE IF IsDefined(b.position) /\ ~IsFinite(ToNumber(b.position))
    THEN Reject("taskUpdate", userId, 400, "Invalid position")
  ELSE LET existing == CHOOSE t \in FindTask(tasks, id.n, userId) : TRUE
           updated == PatchTask(existing, b)
       IN Write("taskUpdate", userId, 200, [NoResp EXCEPT !.item = {updated}],
                   lists, {IF t.id = id.n THEN updated ELSE t : t \in tasks}, nextListId, nextTaskId)

\* A faulty variant of DeleteTaskRow: the tasks that followed the deleted
\* one in its list move up by one position.
DeleteTaskRowCompacting(ts, id) ==
  {IF \E d \in ts : d.id = id /\ d.listId = t.listId /\ d.position < t.position
     THEN [t EXCEPT !.position = @ - 1] ELSE t : t \in {x \in ts : x.id # id}}

\* prisma.task.delete({ where: { id } })
DeleteTaskRow(ts, id) == {t \in ts : t.id # id}

\* DELETE /api/tasks/:id
TaskDelete(req) ==
  LET userId == getUserId(req)
      id == ToNumber(Str(req.params.id))
  IN
  IF userId = Nil THEN Reject("taskDelete", userId, 401, "Unauthorized")
  ELSE IF ~IsFinite(id) THEN Reject("taskDelete", userId, 400, "Invalid id")
  ELSE IF FindTask(tasks, id.n, userId) = {}
    THEN Reject("taskDelete", userId, 404, "Task not found")
  ELSE Write("taskDelete", userId, 200, [NoResp EXCEPT !.ok = TRUE],
                lists, DeleteTaskRow(tasks, id.n), nextListId, nextTaskId)

\* A faulty variant of TaskReorderTransaction: the updates are issued one by
\* one outside a transaction, so those of the rows that are there stay
\* written when one of them throws.
TaskReorderWithoutRollback(req) ==
  LET userId == getUserId(req)
      ids == MapNumber(req.body.taskOrder.a)
  IN Effect(lists, SetTaskPositions(tasks, ids, ToNumber(req.body.listId).n, 0),
            nextListId, nextTaskId,
            IF UpdateOfMissingRow(tasks, ids)
              THEN Response("taskReorder", userId, 500,
                            [NoResp EXCEPT !.error = "Internal Server Error"])
              ELSE Response("taskReorder", userId, 200, [NoResp EXCEPT !.ok = TRUE]))

\* prisma.$transaction(ids.map(task.update)) and the response after it; an
\* update of a row that is not there throws and the transaction rolls back.
TaskReorderTransaction(req) ==
  LET userId == getUserId(req)
      ids == MapNumber(req.body.taskOrder.a)
  IN IF UpdateOfMissingRow(tasks, ids)
       THEN Reject("taskReorder", userId, 500, "Internal Server Error")
       ELSE Write("taskReorder", userId, 200, [NoResp EXCEPT !.ok = TRUE],
                  lists, SetTaskPositions(tasks, ids, ToNumber(req.body.listId).n, 0),
                  nextListId, nextTaskId)

\* PUT /api/tasks/order
TaskReorder(req) ==
  LET userId == getUserId(req)
      parsedListId == ToNumber(req.body.listId)
      taskOrder == req.body.taskOrder
  IN
  IF userId = Nil THEN Reject("taskReorder", userId, 401, "Unauthorized")
  ELSE IF ~IsFinite(parsedListId)
    THEN Reject("taskReorder", userId, 400, "listId is required and must be a number")
  ELSE IF ~IsArray(taskOrder) \/ SomeNotFinite(taskOrder.a)
    THEN Reject("taskReorder", userId, 400, "taskOrder must be an array of ids")
  ELSE LET ids == MapNumber(taskOrder.a)
           missing == Missing(ids, ExistingTaskIds(tasks, userId, ids))
       IN IF Len(missing) > 0
            THEN Effect(lists, tasks, nextListId, nextTaskId,
                        Response("taskReorder", userId, 400,
                                 [NoResp EXCEPT
                                    !.error = "Some tasks do not exist or do not belong to user",
                                    !.missing = missing]))
            ELSE TaskReorderTransaction(req)

\* A faulty variant of CompletedTasks: where: { userId, completed: true }, the list not asked for
CompletedTasksOfAnyList(ts, userId, listId) ==
  {t \in ts : t.userId = userId /\ t.completed}

\* prisma.task.deleteMany({ where: { userId, listId, completed: true } }):
\* the rows it removes
CompletedTasks(ts, userId, listId) ==
  {t \in ts : t.userId = userId /\ t.listId = listId /\ t.completed}

\* DELETE /api/tasks/lists/:id/completed
DeleteCompleted(req) ==
  LET userId == getUserId(req)
      listId == ToNumber(Str(req.params.id))
  IN
  IF userId = Nil THEN Reject("deleteCompleted", userId, 401, "Unauthorized")
  ELSE IF ~IsFinite(listId) THEN Reject("deleteCompleted", userId, 400, "Invalid list id")
  ELSE IF FindList(lists, listId.n, userId) = {}
    THEN Reject("deleteCompleted", userId, 404, "List not found")
  ELSE LET removed == CompletedTasks(tasks, userId, listId.n)
       IN Write("deleteCompleted", userId, 200,
                   [NoResp EXCEPT !.ok = TRUE, !.deletedCount = Cardinality(removed)],
                   lists, tasks \ removed, nextListId, nextTaskId)

(***************************************************************************)
(* The requests of the model.                                              *)
(***************************************************************************)
\* Callers: none resolved, and users resolved through req.user, through
\* req.userId and through req.session.userId.
Auths ==
  {Auth(Nil, Nil, Nil), Auth("u1", "u2", "u2"), Auth(Nil, "u2", "u1"), Auth(Nil, Nil, "u1")}

\* The ids a request can name: every id the store assigns
MaxId == IF MaxLists > MaxTasks THEN MaxLists ELSE MaxTasks

Ids == 1..MaxId

\* A path segment in the place of :id
IdParams == {x \in DOMAIN DecimalStrings : DecimalStrings[x] \in Ids} \cup {"order"}

\* The arrays of ids of at most MaxOrder entries, and two arrays with
\* strings among their entries
IdArrays == UNION {[1..n -> {Num(i) : i \in Ids}] : n \in 0..MaxOrder}

OrderArrays == {Arr(a) : a \in IdArrays \cup {<<Str("2"), Num(1)>>, <<Num(1), Str("x")>>}}

ListCreateBodies ==
  {NoBody, [NoBody EXCEPT !.name = Str("My  List")],
   [NoBody EXCEPT !.name = Str("Work"), !.slug = Str("work")]}

ListUpdateBodies ==
  {NoBody, [NoBody EXCEPT !.name = Str("Work"), !.slug = Str("work")]}

ListReorderBodies ==
  {NoBody} \cup {[NoBody EXCEPT !.listOrder = a] : a \in OrderArrays}

FullTask(listId) ==
  [NoBody EXCEPT !.listId = listId, !.title = Str("t"), !.description = Str("d"),
                 !.dueDate = Str("2026-01-01"), !.recurringConfig = Str("weekly"),
                 !.starred = Bool(TRUE)]

TaskCreateBodies ==
  {NoBody, [NoBody EXCEPT !.listId = Num(1)], FullTask(Null), FullTask(Str("1"))}
  \cup {FullTask(Num(i)) : i \in 1..MaxLists}

TaskUpdateBodies ==
  {NoBody,
   [NoBody EXCEPT !.title = Str("t2"), !.description = Null, !.dueDate = Null,
                  !.recurringConfig = Null, !.completed = Bool(TRUE), !.starred = Bool(FALSE)],
   [NoBody EXCEPT !.listId = Str("x")], [NoBody EXCEPT !.position = Str("x")],
   [NoBody EXCEPT !.completed = Bool(TRUE), !.position = Str("x")],
   [NoBody EXCEPT !.position = Num(0)]}
  \cup {[NoBody EXCEPT !.listId = Num(i)] : i \in 1..MaxLists}

TaskReorderBodies ==
  {NoBody, [NoBody EXCEPT !.listId = Num(1)]}
  \cup {[NoBody EXCEPT !.listId = Num(i), !.taskOrder = a] : i \in 1..MaxLists, a \in OrderArrays}

ListIdQueries == {Undef, Str("1"), Str("x")}

(***************************************************************************)
(* Spec: the handlers as commands, one request at a time.  A command       *)
(* starts when the connection is idle; its response stays in last until it *)
(* is delivered.                                                           *)
(***************************************************************************)
Idle == Response("none", Nil, 0, NoResp)

NoCalls == <<>>

Init ==
  /\ lists = {}
  /\ tasks = {}
  /\ nextListId = 1
  /\ nextTaskId = 1
  /\ last = Idle
  /\ calls = NoCalls

\* The response is sent and the connection is idle again.
Deliver ==
  /\ last # Idle
  /\ last' = Idle
  /\ UNCHANGED <<lists, tasks, nextListId, nextTaskId, calls>>

\* The handler's effect takes place; a create is cut off at the bounds.
Perform(e) ==
  /\ e.nextListId <= MaxLists + 1
  /\ e.nextTaskId <= MaxTasks + 1
  /\ lists' = e.lists
  /\ tasks' = e.tasks
  /\ nextListId' = e.nextListId
  /\ nextTaskId' = e.nextTaskId
  /\ last' = e.last
  /\ UNCHANGED calls

BootstrapRequests == {Request(a, "", Undef, NoBody) : a \in Auths}

ListIndexRequests == {Request(a, "", Undef, NoBody) : a \in Auths}

ListCreateRequests == {Request(a, "", Undef, b) : a \in Auths, b \in ListCreateBodies}

ListUpdateRequests ==
  {Request(a, id, Undef, b) : a \in Auths, id \in IdParams, b \in ListUpdateBodies}

ListDeleteRequests == {Request(a, id, Undef, NoBody) : a \in Auths, id \in IdParams}

ListReorderRequests == {Request(a, "", Undef, b) : a \in Auths, b \in ListReorderBodies}

TaskIndexRequests == {Request(a, "", q, NoBody) : a \in Auths, q \in ListIdQueries}

TaskCreateRequests == {Request(a, "", Undef, b) : a \in Auths, b \in TaskCreateBodies}

TaskUpdateRequests ==
  {Request(a, id, Undef, b) : a \in Auths, id \in IdParams, b \in TaskUpdateBodies}

TaskDeleteRequests == {Request(a, id, Undef, NoBody) : a \in Auths, id \in IdParams}

TaskReorderRequests == {Request(a, "", Undef, b) : a \in Auths, b \in TaskReorderBodies}

DeleteCompletedRequests == {Request(a, id, Undef, NoBody) : a \in Auths, id \in IdParams}

DoBootstrap ==
  /\ last = Idle
  /\ \E req \in BootstrapRequests : \E e \in {Bootstrap(req)} : Perform(e)

DoListIndex ==
  /\ last = Idle
  /\ \E req \in ListIndexRequests : \E e \in {ListIndex(req)} : Perform(e)

DoListCreate ==
  /\ last = Idle
  /\ \E req \in ListCreateRequests : \E e \in {ListCreate(req)} : Perform(e)

DoListUpdate ==
  /\ last = Idle
  /\ \E req \in ListUpdateRequests : \E e \in {ListUpdate(req)} : Perform(e)

DoListDelete ==
  /\ last = Idle
  /\ \E req \in ListDeleteRequests : \E e \in {ListDelete(req)} : Perform(e)

DoListReorder ==
  /\ last = Idle
  /\ \E req \in ListReorderRequests : \E e \in {ListReorder(req)} : Perform(e)

DoTaskIndex ==
  /\ last = Idle
  /\ \E req \in TaskIndexRequests : \E e \in {TaskIndex(req)} : Perform(e)

DoTaskCreate ==
  /\ last = Idle
  /\ \E req \in TaskCreateRequests : \E e \in {TaskCreate(req)} : Perform(e)

DoTaskUpdate ==
  /\ last = Idle
  /\ \E req \in TaskUpdateRequests : \E e \in {TaskUpdate(req)} : Perform(e)

DoTaskDelete ==
  /\ last = Idle
  /\ \E req \in TaskDeleteRequests : \E e \in {TaskDelete(req)} : Perform(e)

DoTaskReorder ==
  /\ last = Idle
  /\ \E req \in TaskReorderRequests : \E e \in {TaskReorder(req)} : Perform(e)

DoDeleteCompleted ==
  /\ last = Idle
  /\ \E req \in DeleteCompletedRequests : \E e \in {DeleteCompleted(req)} : Perform(e)

Next ==
  \/ DoBootstrap
  \/ DoListIndex
  \/ DoListCreate
  \/ DoListUpdate
  \/ DoListDelete
  \/ DoListReorder
  \/ DoTaskIndex
  \/ DoTaskCreate
  \/ DoTaskUpdate
  \/ DoTaskDelete
  \/ DoTaskReorder
  \/ DoDeleteCompleted
  \/ Deliver

Spec == Init /\ [][Next]_vars

(***************************************************************************)
(* SpecHttp: the router.  router.METHOD(path, handler) appends a route;    *)
(* a request is served by the first route, in registration order, whose    *)
(* method and path match.  A path is its segments; ":id" matches any one   *)
(* segment, which becomes req.params.id.                                   *)
(***************************************************************************)
Route(method, path, handler) == [method |-> method, path |-> path, handler |-> handler]

Routes ==
  << Route("GET", <<"api", "tasks", "bootstrap">>, "bootstrap"),
     Route("GET", <<"api", "tasks", "lists">>, "listIndex"),
     Route("POST", <<"api", "tasks", "lists">>, "listCreate"),
     Route("PUT", <<"api", "tasks", "lists", ":id">>, "listUpdate"),
     Route("DELETE", <<"api", "tasks", "lists", ":id">>, "listDelete"),
     Route("PUT", <<"api", "tasks", "lists", "order">>, "listReorder"),
     Route("GET", <<"api", "tasks">>, "taskIndex"),
     Route("POST", <<"api", "tasks">>, "taskCreate"),
     Route("PUT", <<"api", "tasks", ":id">>, "taskUpdate"),
     Route("DELETE", <<"api", "tasks", ":id">>, "taskDelete"),
     Route("PUT", <<"api", "tasks", "order">>, "taskReorder"),
     Route("DELETE", <<"api", "tasks", "lists", ":id", "completed">>, "deleteCompleted") >>

Matches(route, method, path) ==
  /\ route.method = method
  /\ Len(route.path) = Len(path)
  /\ \A i \in 1..Len(path) : route.path[i] = ":id" \/ route.path[i] = path[i]

\* The handler of the first route that matches; "none" when no route does
\* and the router passes the request on.
Dispatch(method, path) ==
  IF \E i \in 1..Len(Routes) : Matches(Routes[i], method, path)
    THEN Routes[CHOOSE i \in 1..Len(Routes) :
                  /\ Matches(Routes[i], method, path)
                  /\ \A j \in 1..(i - 1) : ~Matches(Routes[j], method, path)].handler
    ELSE "none"

\* req.params.id of a path served by a route: the segment in the place of :id
ParamId(method, path) ==
  LET i == CHOOSE k \in 1..Len(Routes) :
             /\ Matches(Routes[k], method, path)
             /\ \A j \in 1..(k - 1) : ~Matches(Routes[j], method, path)
      at == {k \in 1..Len(path) : Routes[i].path[k] = ":id"}
  IN IF at = {} THEN "" ELSE path[CHOOSE k \in at : TRUE]

\* A method and path, with the queries and bodies sent to it
Target(method, path, queries, bodies) ==
  [method |-> method, path |-> path, queries |-> queries, bodies |-> bodies]

\* The requests sent: every route's path, with every segment of IdParams in
\* the place of an id (so also /api/tasks/lists/order and /api/tasks/order),
\* and a path no route serves.
HttpTargets ==
  {Target("GET", <<"api", "tasks", "bootstrap">>, {Undef}, {NoBody}),
   Target("GET", <<"api", "tasks", "lists">>, {Undef}, {NoBody}),
   Target("POST", <<"api", "tasks", "lists">>, {Undef}, ListCreateBodies),
   Target("GET", <<"api", "tasks">>, ListIdQueries, {NoBody}),
   Target("POST", <<"api", "tasks">>, {Undef}, TaskCreateBodies),
   Target("GET", <<"api", "tasks", "order">>, {Undef}, {NoBody})}
  \cup {Target("PUT", <<"api", "tasks", "lists", id>>, {Undef},
               ListUpdateBodies \cup ListReorderBodies) : id \in IdParams}
  \cup {Target("DELETE", <<"api", "tasks", "lists", id>>, {Undef}, {NoBody}) : id \in IdParams}
  \cup {Target("PUT", <<"api", "tasks", id>>, {Undef},
               TaskUpdateBodies \cup TaskReorderBodies) : id \in IdParams}
  \cup {Target("DELETE", <<"api", "tasks", id>>, {Undef}, {NoBody}) : id \in IdParams}
  \cup {Target("DELETE", <<"api", "tasks", "lists", id, "completed">>, {Undef}, {NoBody}) :
          id \in IdParams}

\* The handler runs on the request the router hands it.
Handle(handler, req) ==
  CASE handler = "bootstrap" -> Bootstrap(req)
    [] handler = "listIndex" -> ListIndex(req)
    [] handler = "listCreate" -> ListCreate(req)
    [] handler = "listUpdate" -> ListUpdate(req)
    [] handler = "listDelete" -> ListDelete(req)
    [] handler = "listReorder" -> ListReorder(req)
    [] handler = "taskIndex" -> TaskIndex(req)
    [] handler = "taskCreate" -> TaskCreate(req)
    [] handler = "taskUpdate" -> TaskUpdate(req)
    [] handler = "taskDelete" -> TaskDelete(req)
    [] handler = "taskReorder" -> TaskReorder(req)
    [] handler = "deleteCompleted" -> DeleteCompleted(req)
    [] OTHER -> Reject("none", Nil, 404, "Not Found")

\* The router serves one request: it dispatches on the method and path and
\* runs the handler on the request.
DoServe ==
  /\ last = Idle
  /\ \E t \in HttpTargets :
       \E handler \in {Dispatch(t.method, t.path)} :
         \E id \in {IF handler = "none" THEN "" ELSE ParamId(t.method, t.path)} :
           \E a \in Auths, q \in t.queries, b \in t.bodies :
             \E e \in {Handle(handler, Request(a, id, q, b))} : Perform(e)

NextHttp ==
  \/ DoServe
  \/ Deliver

SpecHttp == Init /\ [][NextHttp]_vars

(***************************************************************************)
(* SpecRace: two connections.  A handler runs up to each await; between    *)
(* two awaits of one request the store calls of the other request can      *)
(* take place.  calls[c] is the request in flight on connection c: where   *)
(* its handler stands, the count it has read, and its response; for a      *)
(* bootstrap, since is the id the store was to assign to the next list     *)
(* when the first of its reads completed.                                  *)
(***************************************************************************)
Conns == {1, 2}

IdleCall ==
  [pc |-> "idle", op |-> "none", req |-> Request(Auth(Nil, Nil, Nil), "", Undef, NoBody),
   count |-> 0, since |-> 0, resp |-> Idle]

InitRace ==
  /\ lists = {}
  /\ tasks = {}
  /\ nextListId = 1
  /\ nextTaskId = 1
  /\ last = Idle
  /\ calls = [c \in Conns |-> IdleCall]

\* The creates in flight that have not yet inserted
InFlight(op) == Cardinality({c \in Conns : calls[c].op = op /\ calls[c].pc \in {"count", "create"}})

\* The handler on connection c stops at its next await, or answers.
Await(c, op, req, pc, count) ==
  /\ calls' = [calls EXCEPT ![c] = [pc |-> pc, op |-> op, req |-> req, count |-> count,
                                    since |-> 0, resp |-> Idle]]
  /\ UNCHANGED <<lists, tasks, nextListId, nextTaskId, last>>

Respond(c, op, req, e) ==
  /\ lists' = e.lists
  /\ tasks' = e.tasks
  /\ nextListId' = e.nextListId
  /\ nextTaskId' = e.nextTaskId
  /\ calls' = [calls EXCEPT ![c] = [pc |-> "done", op |-> op, req |-> req, count |-> @.count,
                                    since |-> @.since, resp |-> e.last]]
  /\ UNCHANGED last

\* POST /api/tasks/lists up to the result of prisma.taskList.count
ListCreateCount(c) ==
  /\ calls[c].pc = "idle"
  /\ nextListId + InFlight("listCreate") <= MaxLists
  /\ \E req \in ListCreateRequests :
       \E e \in {ListCreate(req)} :
         IF e.last.status = 201
           THEN Await(c, "listCreate", req, "create", CountLists(lists, getUserId(req)))
           ELSE Respond(c, "listCreate", req, e)

\* POST /api/tasks/lists from prisma.taskList.create on
ListCreateCreate(c) ==
  /\ calls[c].pc = "create"
  /\ calls[c].op = "listCreate"
  /\ Respond(c, "listCreate", calls[c].req, ListCreateInsert(calls[c].req, calls[c].count))

\* POST /api/tasks up to the result of prisma.taskList.findFirst
TaskCreateFind(c) ==
  /\ calls[c].pc = "idle"
  /\ nextTaskId + InFlight("taskCreate") <= MaxTasks
  /\ \E req \in TaskCreateRequests :
       \E e \in {TaskCreate(req)} :
         IF e.last.status = 201
           THEN Await(c, "taskCreate", req, "count", 0)
           ELSE Respond(c, "taskCreate", req, e)

\* POST /api/tasks: the result of prisma.task.count
TaskCreateCount(c) ==
  /\ calls[c].pc = "count"
  /\ calls[c].op = "taskCreate"
  /\ Await(c, "taskCreate", calls[c].req, "create",
           CountTasks(tasks, getUserId(calls[c].req), ToNumber(calls[c].req.body.listId).n))

\* POST /api/tasks from prisma.task.create on
TaskCreateCreate(c) ==
  /\ calls[c].pc = "create"
  /\ calls[c].op = "taskCreate"
  /\ Respond(c, "taskCreate", calls[c].req, TaskCreateInsert(calls[c].req, calls[c].count))

\* DELETE /api/tasks/lists/:id up to the result of prisma.taskList.findFirst
ListDeleteFind(c) ==
  /\ calls[c].pc = "idle"
  /\ \E req \in ListDeleteRequests :
       \E e \in {ListDelete(req)} :
         IF e.last.status = 200
           THEN Await(c, "listDelete", req, "transaction", 0)
           ELSE Respond(c, "listDelete", req, e)

\* DELETE /api/tasks/lists/:id from prisma.$transaction on
ListDeleteCommit(c) ==
  /\ calls[c].pc = "transaction"
  /\ Respond(c, "listDelete", calls[c].req, ListDeleteTransaction(calls[c].req))

\* GET /api/tasks/bootstrap up to the result of the first of the two
\* findMany of Promise.all to complete: the two queries are in flight
\* together and the store completes them in either order.
BootstrapFirstRead(c) ==
  /\ calls[c].pc = "idle"
  /\ \E req \in BootstrapRequests :
       \E e \in {Bootstrap(req)} :
         IF e.last.status = 200
           THEN /\ \E first \in {"lists", "tasks"} :
                     calls' = [calls EXCEPT ![c] =
                       [pc |-> IF first = "lists" THEN "readTasks" ELSE "readLists",
                        op |-> "bootstrap", req |-> req, count |-> 0, since |-> nextListId,
                        resp |-> Response("bootstrap", getUserId(req), 0,
                                   IF first = "lists"
                                     THEN [NoResp EXCEPT !.lists = FindLists(lists, getUserId(req))]
                                     ELSE [NoResp EXCEPT !.tasks =
                                             FindTasks(tasks, getUserId(req), FALSE, 0)])]]
                /\ UNCHANGED <<lists, tasks, nextListId, nextTaskId, last>>
           ELSE Respond(c, "bootstrap", req, e)

\* GET /api/tasks/bootstrap from the result of the other findMany on
BootstrapSecondRead(c) ==
  /\ calls[c].pc \in {"readLists", "readTasks"}
  /\ calls' = [calls EXCEPT ![c] =
       [@ EXCEPT !.pc = "done",
                 !.resp = Response("bootstrap", @.caller, 200,
                            IF calls[c].pc = "readLists"
                              THEN [@.body EXCEPT !.lists = FindLists(lists, getUserId(calls[c].req))]
                              ELSE [@.body EXCEPT !.tasks =
                                      FindTasks(tasks, getUserId(calls[c].req), FALSE, 0)])]]
  /\ UNCHANGED <<lists, tasks, nextListId, nextTaskId, last>>

\* The response is sent and connection c is idle again.
DeliverCall(c) ==
  /\ calls[c].pc = "done"
  /\ calls' = [calls EXCEPT ![c] = IdleCall]
  /\ UNCHANGED <<lists, tasks, nextListId, nextTaskId, last>>

NextRace ==
  \E c \in Conns :
    \/ ListCreateCount(c)
    \/ ListCreateCreate(c)
    \/ TaskCreateFind(c)
    \/ TaskCreateCount(c)
    \/ TaskCreateCreate(c)
    \/ ListDeleteFind(c)
    \/ ListDeleteCommit(c)
    \/ BootstrapFirstRead(c)
    \/ BootstrapSecondRead(c)
    \/ DeliverCall(c)

SpecRace == InitRace /\ [][NextRace]_vars

(***************************************************************************)
(* SpecReorder: the reorder handlers of two connections, each in its two   *)
(* store calls (findMany, $transaction), with the commits of the creates   *)
(* and deletes of other requests taking place between them.                *)
(***************************************************************************)
\* The write of a command of another request commits.
Commit(e) ==
  /\ e.last.status \in {200, 201}
  /\ e.nextListId <= MaxLists + 1
  /\ e.nextTaskId <= MaxTasks + 1
  /\ lists' = e.lists
  /\ tasks' = e.tasks
  /\ nextListId' = e.nextListId
  /\ nextTaskId' = e.nextTaskId
  /\ UNCHANGED <<last, calls>>

\* The requests of SpecReorder: one user, whose reorders name each id at
\* most once
RaceAuth == Auth(Nil, Nil, "u1")

RaceOrders ==
  {Arr(a) : a \in {x \in IdArrays : Len(x) > 0 /\ \A i, j \in 1..Len(x) : x[i] = x[j] => i = j}}

RaceListCreateRequests ==
  {Request(RaceAuth, "", Undef, [NoBody EXCEPT !.name = Str("Work"), !.slug = Str("work")])}

RaceTaskCreateRequests ==
  {Request(RaceAuth, "", Undef, FullTask(Num(i))) : i \in 1..MaxLists}

RaceDeleteRequests ==
  {Request(RaceAuth, id, Undef, NoBody) : id \in IdParams}

RaceListReorderRequests ==
  {Request(RaceAuth, "", Undef, [NoBody EXCEPT !.listOrder = a]) : a \in RaceOrders}

RaceTaskReorderRequests ==
  {Request(RaceAuth, "", Undef, [NoBody EXCEPT !.listId = Num(i), !.taskOrder = a]) :
     i \in 1..MaxLists, a \in RaceOrders}

CommitListCreate == \E req \in RaceListCreateRequests : \E e \in {ListCreate(req)} : Commit(e)

CommitTaskCreate == \E req \in RaceTaskCreateRequests : \E e \in {TaskCreate(req)} : Commit(e)

CommitListDelete == \E req \in RaceDeleteRequests : \E e \in {ListDelete(req)} : Commit(e)

CommitTaskDelete == \E req \in RaceDeleteRequests : \E e \in {TaskDelete(req)} : Commit(e)

\* PUT /api/tasks/lists/order up to the result of prisma.taskList.findMany
ListReorderFind(c) ==
  /\ calls[c].pc = "idle"
  /\ \E req \in RaceListReorderRequests :
       \E e \in {ListReorder(req)} :
         IF e.last.status = 200
           THEN Await(c, "listReorder", req, "commit", 0)
           ELSE Respond(c, "listReorder", req, e)

\* PUT /api/tasks/lists/order from prisma.$transaction on
ListReorderCommit(c) ==
  /\ calls[c].pc = "commit"
  /\ calls[c].op = "listReorder"
  /\ Respond(c, "listReorder", calls[c].req, ListReorderTransaction(calls[c].req))

\* PUT /api/tasks/order up to the result of prisma.task.findMany
TaskReorderFind(c) ==
  /\ calls[c].pc = "idle"
  /\ \E req \in RaceTaskReorderRequests :
       \E e \in {TaskReorder(req)} :
         IF e.last.status = 200
           THEN Await(c, "taskReorder", req, "commit", 0)
           ELSE Respond(c, "taskReorder", req, e)

\* PUT /api/tasks/order from prisma.$transaction on
TaskReorderCommit(c) ==
  /\ calls[c].pc = "commit"
  /\ calls[c].op = "taskReorder"
  /\ Respond(c, "taskReorder", calls[c].req, TaskReorderTransaction(calls[c].req))

NextReorder ==
  \/ CommitListCreate
  \/ CommitTaskCreate
  \/ CommitListDelete
  \/ CommitTaskDelete
  \/ \E c \in Conns :
       \/ ListReorderFind(c)
       \/ ListReorderCommit(c)
       \/ TaskReorderFind(c)
       \/ TaskReorderCommit(c)
       \/ DeliverCall(c)

SpecReorder == InitRace /\ [][NextReorder]_vars

(***************************************************************************)
(* SpecAppend: creates and deletes only, one command at a time, with up    *)
(* to MaxAppend rows created in each table.                                *)
(***************************************************************************)
MaxAppend == 3

PerformAppend(e) ==
  /\ e.nextListId <= MaxAppend + 1
  /\ e.nextTaskId <= MaxAppend + 1
  /\ lists' = e.lists
  /\ tasks' = e.tasks
  /\ nextListId' = e.nextListId
  /\ nextTaskId' = e.nextTaskId
  /\ last' = e.last
  /\ UNCHANGED calls

AppendListCreate ==
  /\ last = Idle
  /\ \E req \in ListCreateRequests : \E e \in {ListCreate(req)} : PerformAppend(e)

AppendListDelete ==
  /\ last = Idle
  /\ \E req \in ListDeleteRequests : \E e \in {ListDelete(req)} : PerformAppend(e)

AppendTaskCreate ==
  /\ last = Idle
  /\ \E req \in TaskCreateRequests : \E e \in {TaskCreate(req)} : PerformAppend(e)

AppendTaskDelete ==
  /\ last = Idle
  /\ \E req \in TaskDeleteRequests : \E e \in {TaskDelete(req)} : PerformAppend(e)

NextAppend ==
  \/ AppendListCreate
  \/ AppendListDelete
  \/ AppendTaskCreate
  \/ AppendTaskDelete
  \/ Deliver

SpecAppend == Init /\ [][NextAppend]_vars

(***************************************************************************)
(* Properties.  A property of a command is stated of the effect of its     *)
(* handler on every request of the model, in every state in which the      *)
(* command can start.                                                      *)
(***************************************************************************)
\* ids lists every member of the set scope exactly once
IsPermutationOf(ids, scope) ==
  /\ Len(ids) = Cardinality(scope)
  /\ {ids[i] : i \in 1..Len(ids)} = scope

ListsOf(ls, userId) == {l \in ls : l.userId = userId}

TasksIn(ts, listId) == {t \in ts : t.listId = listId}

RowIds(rows) == {r.id : r \in rows}

Positions(rows) == {r.position : r \in rows}

\* C1, lists: a list-reorder that succeeds on a permutation of the caller's
\* list ids leaves the i-th submitted list at position i (0-based), so the
\* caller's lists hold exactly the positions 0..n-1.
C1_ListReorder ==
  \A req \in ListReorderRequests :
    LET ids == MapNumber(req.body.listOrder.a)
        userId == getUserId(req)
    IN IsPermutationOf(ids, RowIds(ListsOf(lists, userId))) =>
         \A e \in {ListReorder(req)} :
           e.last.status = 200 =>
             /\ \A i \in 1..Len(ids) :
                  \E l \in e.lists : l.id = ids[i] /\ l.position = i - 1
             /\ Positions(ListsOf(e.lists, userId)) = 0..(Len(ids) - 1)
             /\ RowIds(ListsOf(e.lists, userId)) = RowIds(ListsOf(lists, userId))

\* C1, tasks: a task-reorder that succeeds on a permutation of the ids of
\* the tasks in the target list leaves the i-th submitted task at position
\* i, so the target list's tasks hold exactly the positions 0..n-1.
C1_TaskReorder ==
  \A req \in TaskReorderRequests :
    LET ids == MapNumber(req.body.taskOrder.a)
        listId == ToNumber(req.body.listId).n
    IN IsPermutationOf(ids, RowIds(TasksIn(tasks, listId))) =>
         \A e \in {TaskReorder(req)} :
           e.last.status = 200 =>
             /\ \A i \in 1..Len(ids) :
                  \E t \in e.tasks : t.id = ids[i] /\ t.listId = listId /\ t.position = i - 1
             /\ Positions(TasksIn(e.tasks, listId)) = 0..(Len(ids) - 1)
             /\ RowIds(TasksIn(e.tasks, listId)) = RowIds(TasksIn(tasks, listId))

\* C1: full reorder assigns index as position.  A reorder handler that
\* succeeds on a permutation of all ids of its scope (the caller's lists;
\* the tasks of the target list) leaves each submitted id at the position
\* of its 0-based index, and the scope with exactly the positions 0..n-1.
C1_ReorderAssignsIndex == last = Idle => (C1_ListReorder /\ C1_TaskReorder)

\* C1 witness: a task-reorder has succeeded and left the caller's two tasks
\* of one list in the order opposite to their creation.
C1_Witness ==
  /\ last.op = "taskReorder"
  /\ last.status = 200
  /\ \E t1, t2 \in tasks :
       /\ t1.id < t2.id
       /\ t1.listId = t2.listId
       /\ t1.userId = last.caller /\ t2.userId = last.caller
       /\ t2.position = 0 /\ t1.position = 1
       /\ TasksIn(tasks, t1.listId) = {t1, t2}

\* The ids of a submitted order that name no row of the caller, in the
\* order submitted
NotOwned(ids, rows, userId) ==
  SelectSeq(ids, LAMBDA id : \A r \in rows : ~(r.id = id /\ r.userId = userId))

C2_ListReorder ==
  \A req \in ListReorderRequests :
    LET ids == MapNumber(req.body.listOrder.a)
        userId == getUserId(req)
    IN (/\ userId # Nil
        /\ IsArray(req.body.listOrder)
        /\ ~SomeNotFinite(req.body.listOrder.a)
        /\ NotOwned(ids, lists, userId) # <<>>)
       => \A e \in {ListReorder(req)} :
            /\ e.last.status = 400
            /\ e.last.body.missing = NotOwned(ids, lists, userId)
            /\ e.lists = lists
            /\ e.tasks = tasks

C2_TaskReorder ==
  \A req \in TaskReorderRequests :
    LET ids == MapNumber(req.body.taskOrder.a)
        userId == getUserId(req)
    IN (/\ userId # Nil
        /\ IsFinite(ToNumber(req.body.listId))
        /\ IsArray(req.body.taskOrder)
        /\ ~SomeNotFinite(req.body.taskOrder.a)
        /\ NotOwned(ids, tasks, userId) # <<>>)
       => \A e \in {TaskReorder(req)} :
            /\ e.last.status = 400
            /\ e.last.body.missing = NotOwned(ids, tasks, userId)
            /\ e.lists = lists
            /\ e.tasks = tasks

\* C2: reorder rejection is total.  A list-reorder or task-reorder by a
\* resolved caller whose array of ids names at least one row that does not
\* exist or is not the caller's answers 400 with exactly those ids as
\* missing, and leaves every list and task row as it was.
C2_ReorderRejectionTotal == last = Idle => (C2_ListReorder /\ C2_TaskReorder)

\* C2 witness: a task-reorder was rejected for an id that names a task of
\* another user, while the store holds that task.
C2_Witness ==
  /\ last.op = "taskReorder"
  /\ last.status = 400
  /\ Len(last.body.missing) > 0
  /\ \E t \in tasks : t.id = last.body.missing[1] /\ t.userId # last.caller

\* C5: bulk delete of completed tasks.  A delete-completed that succeeds on
\* list L removes exactly the tasks with listId = L, userId = caller and
\* completed = true, answers their number as deletedCount, and leaves every
\* other task row and every list row as it was.
C5_DeleteCompletedExact ==
  last = Idle =>
    \A req \in DeleteCompletedRequests :
      LET userId == getUserId(req)
          listId == ToNumber(Str(req.params.id)).n
          removed == {t \in tasks : t.listId = listId /\ t.userId = userId /\ t.completed}
      IN \A e \in {DeleteCompleted(req)} :
           e.last.status = 200 =>
             /\ e.tasks = tasks \ removed
             /\ \A t \in tasks \ removed : t \in e.tasks
             /\ e.last.body.deletedCount = Cardinality(tasks) - Cardinality(e.tasks)
             /\ e.last.body.deletedCount = Cardinality(removed)
             /\ e.lists = lists

\* C5 witness: a delete-completed has removed one task and a task of the
\* caller that is not completed is still there.
C5_Witness ==
  /\ last.op = "deleteCompleted"
  /\ last.status = 200
  /\ last.body.deletedCount = 1
  /\ \E t \in tasks : t.userId = last.caller /\ ~t.completed /\ t.position = 1

\* The row of rows with the id of row r keeps r's position
KeepsPosition(rows, r) == \E q \in rows : q.id = r.id /\ q.position = r.position

\* C3, lists: a list-create that succeeds gives the created list the number
\* of lists the caller had as position and leaves the lists there were.
C3_ListCreate ==
  \A req \in ListCreateRequests :
    \A e \in {ListCreate(req)} :
      e.last.status = 201 =>
        /\ \A item \in e.last.body.item :
             item.position = Cardinality(ListsOf(lists, getUserId(req)))
        /\ \A l \in lists : KeepsPosition(e.lists, l)

\* C3, tasks: a task-create that succeeds gives the created task the number
\* of tasks the list held as position and leaves the tasks there were.
C3_TaskCreate ==
  \A req \in TaskCreateRequests :
    \A e \in {TaskCreate(req)} :
      e.last.status = 201 =>
        /\ \A item \in e.last.body.item :
             item.position = Cardinality(TasksIn(tasks, item.listId))
        /\ \A t \in tasks : KeepsPosition(e.tasks, t)

\* C3: append takes position n.  A list-create by a caller with n lists, or
\* a task-create on an owned list holding n tasks, that runs from count to
\* insert with no other command in between gives the created item position
\* n and leaves the position of every item there was.
C3_AppendTakesCount == last = Idle => (C3_ListCreate /\ C3_TaskCreate)

\* C4: cascade delete empties the list.  After a list-delete of list L by
\* its owner has succeeded, no task has listId = L, L is not among the
\* lists, and every task of another list is as it was.
C4_CascadeEmptiesList ==
  last = Idle =>
    \A req \in ListDeleteRequests :
      LET listId == ToNumber(Str(req.params.id)).n
      IN \A e \in {ListDelete(req)} :
           e.last.status = 200 =>
             /\ TasksIn(e.tasks, listId) = {}
             /\ \A l \in e.lists : l.id # listId
             /\ \A t \in tasks : t.listId # listId => t \in e.tasks

\* The well-formed reorder requests of a caller: an array of finite ids
\* that is a permutation of the ids of the scope
WellFormedListReorder(req) ==
  /\ getUserId(req) # Nil
  /\ IsArray(req.body.listOrder)
  /\ ~SomeNotFinite(req.body.listOrder.a)
  /\ IsPermutationOf(MapNumber(req.body.listOrder.a), RowIds(ListsOf(lists, getUserId(req))))

WellFormedTaskReorder(req) ==
  /\ getUserId(req) # Nil
  /\ IsFinite(ToNumber(req.body.listId))
  /\ IsArray(req.body.taskOrder)
  /\ ~SomeNotFinite(req.body.taskOrder.a)
  /\ IsPermutationOf(MapNumber(req.body.taskOrder.a),
                     RowIds({t \in tasks : t.userId = getUserId(req)
                                           /\ t.listId = ToNumber(req.body.listId).n}))

\* The response of the router to a request sent to a method and path
Served(method, path, req) ==
  Handle(Dispatch(method, path),
         [req EXCEPT !.params.id = ParamId(method, path)]).last

\* C6: every caller-facing command reaches its own handler.  A PUT to
\* /api/tasks/lists/order with a well-formed listOrder is answered by the
\* list-reorder handler with 200, and a PUT to /api/tasks/order with a
\* well-formed listId and taskOrder by the task-reorder handler with 200.
C6_ReorderReachesHandler ==
  last = Idle =>
    /\ \A req \in ListReorderRequests :
         WellFormedListReorder(req) =>
           \A r \in {Served("PUT", <<"api", "tasks", "lists", "order">>, req)} :
             r.op = "listReorder" /\ r.status = 200
    /\ \A req \in TaskReorderRequests :
         WellFormedTaskReorder(req) =>
           \A r \in {Served("PUT", <<"api", "tasks", "order">>, req)} :
             r.op = "taskReorder" /\ r.status = 200

\* Every list and task of the state keeps its position in the effect e,
\* but for the tasks of the set except
PositionsKept(e, except) ==
  /\ \A l \in lists : (\E q \in e.lists : q.id = l.id) => KeepsPosition(e.lists, l)
  /\ \A t \in tasks \ except : (\E q \in e.tasks : q.id = t.id) => KeepsPosition(e.tasks, t)

OtherEffects ==
  {Bootstrap(req) : req \in BootstrapRequests}
  \cup {ListIndex(req) : req \in ListIndexRequests}
  \cup {ListCreate(req) : req \in ListCreateRequests}
  \cup {ListDelete(req) : req \in ListDeleteRequests}
  \cup {TaskIndex(req) : req \in TaskIndexRequests}
  \cup {TaskCreate(req) : req \in TaskCreateRequests}
  \cup {TaskDelete(req) : req \in TaskDeleteRequests}
  \cup {DeleteCompleted(req) : req \in DeleteCompletedRequests}

C9_TaskOwnerIsListOwner ==
  \A t \in tasks : \A l \in lists : l.id = t.listId => l.userId = t.userId

\* C10: no orphan tasks.  In every state every task's listId names a list
\* that exists.
C10_NoOrphanTasks ==
  \A t \in tasks : \E l \in lists : l.id = t.listId

\* The creates of the two connections that have answered 201 in one scope:
\* two list-creates of one caller, or two task-creates on one list
SameScopeCreates ==
  /\ calls[1].pc = "done" /\ calls[2].pc = "done"
  /\ calls[1].resp.status = 201 /\ calls[2].resp.status = 201
  /\ calls[1].op = calls[2].op
  /\ calls[1].resp.caller = calls[2].resp.caller
  /\ \A i1 \in calls[1].resp.body.item : \A i2 \in calls[2].resp.body.item :
       calls[1].op = "taskCreate" => i1.listId = i2.listId

\* C7: concurrent creates are race-free.  Under every interleaving of the
\* count and the insert of two list-creates of one user, or of two
\* task-creates on one list, the two created items have distinct positions.
C7_ConcurrentCreatesDistinct ==
  SameScopeCreates =>
    \A i1 \in calls[1].resp.body.item : \A i2 \in calls[2].resp.body.item :
      i1.position # i2.position

\* The ids of the lists of a caller
OwnedListIds(userId) == RowIds(ListsOf(lists, userId))

\* The ids of the tasks of a caller
OwnedTaskIds(userId) == RowIds({t \in tasks : t.userId = userId})

\* The effect e answers 404 and leaves the store as it was
NotFoundUnchanged(e) ==
  /\ e.last.status = 404
  /\ e.lists = lists
  /\ e.tasks = tasks

\* C11, path ids: a command of a resolved caller whose path id is a number
\* that names no list (task) of the caller answers 404 and changes nothing.
C11_PathId ==
  /\ \A req \in ListUpdateRequests \cup ListDeleteRequests \cup DeleteCompletedRequests :
       (/\ getUserId(req) # Nil
        /\ IsFinite(ToNumber(Str(req.params.id)))
        /\ ToNumber(Str(req.params.id)).n \notin OwnedListIds(getUserId(req)))
       => /\ req \in ListUpdateRequests => NotFoundUnchanged(ListUpdate(req))
          /\ req \in ListDeleteRequests => NotFoundUnchanged(ListDelete(req))
          /\ req \in DeleteCompletedRequests => NotFoundUnchanged(DeleteCompleted(req))
  /\ \A req \in TaskUpdateRequests \cup TaskDeleteRequests :
       (/\ getUserId(req) # Nil
        /\ IsFinite(ToNumber(Str(req.params.id)))
        /\ ToNumber(Str(req.params.id)).n \notin OwnedTaskIds(getUserId(req)))
       => /\ req \in TaskUpdateRequests => NotFoundUnchanged(TaskUpdate(req))
          /\ req \in TaskDeleteRequests => NotFoundUnchanged(TaskDelete(req))

\* C11, list ids of a body: a task-create, a task-update of an owned task
\* or a task-reorder of a resolved caller, otherwise well formed, whose
\* listId is a number that names no list of the caller answers 404 and
\* changes nothing.
C11_BodyListId ==
  /\ \A req \in TaskCreateRequests :
       (/\ getUserId(req) # Nil
        /\ IsFinite(ToNumber(req.body.listId))
        /\ Truthy(req.body.title) /\ IsString(req.body.title)
        /\ ToNumber(req.body.listId).n \notin OwnedListIds(getUserId(req)))
       => NotFoundUnchanged(TaskCreate(req))
  /\ \A req \in TaskUpdateRequests :
       (/\ getUserId(req) # Nil
        /\ IsFinite(ToNumber(Str(req.params.id)))
        /\ ToNumber(Str(req.params.id)).n \in OwnedTaskIds(getUserId(req))
        /\ IsDefined(req.body.listId)
        /\ IsFinite(ToNumber(req.body.listId))
        /\ ToNumber(req.body.listId).n \notin OwnedListIds(getUserId(req)))
       => NotFoundUnchanged(TaskUpdate(req))
  /\ \A req \in TaskReorderRequests :
       (/\ getUserId(req) # Nil
        /\ IsFinite(ToNumber(req.body.listId))
        /\ IsArray(req.body.taskOrder)
        /\ ~SomeNotFinite(req.body.taskOrder.a)
        /\ ToNumber(req.body.listId).n \notin OwnedListIds(getUserId(req)))
       => NotFoundUnchanged(TaskReorder(req))

\* C11: NotFound for foreign or missing ids.  Every command that names a
\* list id or task id which does not exist or is another user's (the path
\* id of list-update, list-delete, task-update, task-delete and
\* delete-completed; the listId of task-create; the target listId of
\* task-update and of task-reorder) answers 404 and changes nothing.
C11_NotFoundForForeignIds == last = Idle => (C11_PathId /\ C11_BodyListId)

\* The effect e of a handler on the request req: a request without a caller
\* is answered 401, and an answer of 400, 401 or 404 comes with no row
\* created, updated or deleted.
FailsClean(req, e) ==
  /\ getUserId(req) = Nil => e.last.status = 401
  /\ e.last.status \in {400, 401, 404} =>
       /\ e.lists = lists
       /\ e.tasks = tasks
       /\ e.nextListId = nextListId
       /\ e.nextTaskId = nextTaskId

\* C12: failed commands mutate nothing.  Every API command without a
\* resolvable caller answers 401, and every command that answers 400, 401 or
\* 404 has created, updated and deleted no row of the store.
C12_FailedCommandsMutateNothing ==
  last = Idle =>
    /\ \A req \in BootstrapRequests : FailsClean(req, Bootstrap(req))
    /\ \A req \in ListIndexRequests : FailsClean(req, ListIndex(req))
    /\ \A req \in ListCreateRequests : FailsClean(req, ListCreate(req))
    /\ \A req \in ListUpdateRequests : FailsClean(req, ListUpdate(req))
    /\ \A req \in ListDeleteRequests : FailsClean(req, ListDelete(req))
    /\ \A req \in ListReorderRequests : FailsClean(req, ListReorder(req))
    /\ \A req \in TaskIndexRequests : FailsClean(req, TaskIndex(req))
    /\ \A req \in TaskCreateRequests : FailsClean(req, TaskCreate(req))
    /\ \A req \in TaskUpdateRequests : FailsClean(req, TaskUpdate(req))
    /\ \A req \in TaskDeleteRequests : FailsClean(req, TaskDelete(req))
    /\ \A req \in TaskReorderRequests : FailsClean(req, TaskReorder(req))
    /\ \A req \in DeleteCompletedRequests : FailsClean(req, DeleteCompleted(req))

\* C12 witness: a task-update of an existing task was answered 400 for its
\* position, and no task of the caller is completed.
C12_Witness ==
  /\ last.op = "taskUpdate"
  /\ last.status = 400
  /\ last.body.error = "Invalid position"
  /\ \E t \in tasks : t.userId = last.caller
  /\ \A t \in tasks : t.userId = last.caller => ~t.completed

\* Every list and task that the effect e leaves in the store has the
\* position it had
NotCompacted(e) ==
  /\ \A l \in e.lists : KeepsPosition(lists, l)
  /\ \A t \in e.tasks : KeepsPosition(tasks, t)

\* C16: no auto-compaction.  A task-delete, a list-delete and a move of one
\* task (a task-update with a listId and without a position) that succeed
\* leave every list and task that is still there at the position it had;
\* the moved task is in the target list at the position it had.
C16_NoAutoCompaction ==
  last = Idle =>
    /\ \A req \in TaskDeleteRequests :
         \A e \in {TaskDelete(req)} :
           e.last.status = 200 =>
             /\ NotCompacted(e)
             /\ e.tasks = {t \in tasks : t.id # ToNumber(Str(req.params.id)).n}
             /\ e.lists = lists
    /\ \A req \in ListDeleteRequests :
         \A e \in {ListDelete(req)} :
           e.last.status = 200 =>
             /\ NotCompacted(e)
             /\ e.tasks \subseteq tasks
             /\ e.lists = {l \in lists : l.id # ToNumber(Str(req.params.id)).n}
    /\ \A req \in TaskUpdateRequests :
         \A e \in {TaskUpdate(req)} :
           (/\ e.last.status = 200
            /\ IsDefined(req.body.listId)
            /\ ~IsDefined(req.body.position)) =>
             /\ NotCompacted(e)
             /\ RowIds(e.tasks) = RowIds(tasks)
             /\ e.lists = lists
             /\ \A t \in e.tasks :
                  IF t.id = ToNumber(Str(req.params.id)).n
                    THEN t.listId = ToNumber(req.body.listId).n
                    ELSE t \in tasks

\* C16 witness: a task-delete has removed the task at position 0 of a list
\* and the list's other task is still at position 1.
C16_Witness ==
  /\ last.op = "taskDelete"
  /\ last.status = 200
  /\ \E t \in tasks :
       /\ t.userId = last.caller
       /\ t.position = 1
       /\ TasksIn(tasks, t.listId) = {t}

\* The ids of a submitted order
Listed(ids) == {ids[i] : i \in 1..Len(ids)}

\* C17: reorder touches only what it lists.  A task-reorder that succeeds
\* changes, of the tasks whose ids it lists, nothing but listId and
\* position, and leaves every other task, the omitted ones of the target
\* list among them, and every list as it was; a list-reorder that succeeds
\* changes nothing but the position of the lists it lists.
C17_ReorderTouchesOnlyListed ==
  last = Idle =>
    /\ \A req \in TaskReorderRequests :
         \A e \in {TaskReorder(req)} :
           e.last.status = 200 =>
             /\ e.lists = lists
             /\ RowIds(e.tasks) = RowIds(tasks)
             /\ Cardinality(e.tasks) = Cardinality(tasks)
             /\ \A t \in tasks :
                  IF t.id \in Listed(MapNumber(req.body.taskOrder.a))
                    THEN \E u \in e.tasks :
                           u = [t EXCEPT !.listId = u.listId, !.position = u.position]
                    ELSE t \in e.tasks
    /\ \A req \in ListReorderRequests :
         \A e \in {ListReorder(req)} :
           e.last.status = 200 =>
             /\ e.tasks = tasks
             /\ RowIds(e.lists) = RowIds(lists)
             /\ Cardinality(e.lists) = Cardinality(lists)
             /\ \A l \in lists :
                  IF l.id \in Listed(MapNumber(req.body.listOrder.a))
                    THEN \E u \in e.lists : u = [l EXCEPT !.position = u.position]
                    ELSE l \in e.lists

\* C17 witness: a task-reorder that listed one of the two tasks of a list
\* has put it at position 0, where the task it left out still is.
C17_Witness ==
  /\ last.op = "taskReorder"
  /\ last.status = 200
  /\ \E t1, t2 \in tasks :
       /\ t1.id < t2.id
       /\ t1.listId = t2.listId
       /\ t1.userId = last.caller /\ t2.userId = last.caller
       /\ t1.position = 0 /\ t2.position = 0

\* C18: index assignment holds for every accepted order.  After a
\* list-reorder or task-reorder that succeeds, the row named by the i-th id
\* of the submitted order has position i (0-based), for every index i of the
\* order, also when an id occurs in it more than once.
C18_IndexAssignedForEveryOrder ==
  last = Idle =>
    /\ \A req \in ListReorderRequests :
         \A e \in {ListReorder(req)} :
           e.last.status = 200 =>
             \A i \in 1..Len(req.body.listOrder.a) :
               \A l \in e.lists :
                 l.id = ToNumber(req.body.listOrder.a[i]).n => l.position = i - 1
    /\ \A req \in TaskReorderRequests :
         \A e \in {TaskReorder(req)} :
           e.last.status = 200 =>
             \A i \in 1..Len(req.body.taskOrder.a) :
               \A t \in e.tasks :
                 t.id = ToNumber(req.body.taskOrder.a[i]).n => t.position = i - 1

\* The rows of a table that are not the user's
RowsOfOthers(rows, userId) == {r \in rows : r.userId # userId}

\* The effect e of a handler on a request of the caller userId: the rows of
\* other users are as they were, and every row the response carries is the
\* caller's.
Isolated(userId, e) ==
  /\ RowsOfOthers(e.lists, userId) = RowsOfOthers(lists, userId)
  /\ RowsOfOthers(e.tasks, userId) = RowsOfOthers(tasks, userId)
  /\ \A i \in 1..Len(e.last.body.lists) : e.last.body.lists[i].userId = userId
  /\ \A i \in 1..Len(e.last.body.tasks) : e.last.body.tasks[i].userId = userId
  /\ \A item \in e.last.body.item : item.userId = userId

C15_AppendAtTail ==
  last = Idle =>
    /\ \A req \in ListCreateRequests :
         \A e \in {ListCreate(req)} :
           e.last.status = 201 =>
             \A item \in e.last.body.item :
               \A l \in ListsOf(lists, getUserId(req)) : ListBefore(l, item)
    /\ \A req \in TaskCreateRequests :
         \A e \in {TaskCreate(req)} :
           e.last.status = 201 =>
             \A item \in e.last.body.item :
               \A t \in TasksIn(tasks, item.listId) : TaskBefore(t, item)

\* C20: the bootstrap snapshot is self-consistent.  Under every
\* interleaving of the two reads of a bootstrap with the store calls of a
\* concurrent list-delete or task-create (no list is created between the
\* two reads), every task of the snapshot returned has the listId of a list
\* of the same snapshot.
C20_SnapshotSelfConsistent ==
  \A c \in Conns :
    (/\ calls[c].pc = "done" /\ calls[c].op = "bootstrap" /\ calls[c].resp.status = 200
     /\ calls[c].since = nextListId
     /\ \A d \in Conns : calls[d].op # "listCreate") =>
      \A i \in 1..Len(calls[c].resp.body.tasks) :
        \E j \in 1..Len(calls[c].resp.body.lists) :
          calls[c].resp.body.lists[j].id = calls[c].resp.body.tasks[i].listId

\* The order a reorder request submits, as ids
OrderOf(call) ==
  MapNumber(IF call.op = "listReorder" THEN call.req.body.listOrder.a
            ELSE call.req.body.taskOrder.a)

\* What the transaction of the reorder in flight on connection c does when
\* it commits in the current state
CommitEffect(c) ==
  IF calls[c].op = "listReorder" THEN ListReorderTransaction(calls[c].req)
  ELSE TaskReorderTransaction(calls[c].req)

\* The table a reorder writes
TableOf(call, ls, ts) == IF call.op = "listReorder" THEN ls ELSE ts

\* C13: the reorder commit is all-or-nothing.  When the transaction of a
\* reorder commits after one of the rows it lists has been deleted by
\* another command, the reorder answers 500 and no position and no listId
\* of any row is written; whenever it does not answer 200, the lists and
\* tasks are as they were.
C13_ReorderCommitAllOrNothing ==
  \A c \in Conns :
    calls[c].pc = "commit" =>
      \A e \in {CommitEffect(c)} :
        /\ (\E i \in 1..Len(OrderOf(calls[c])) :
              OrderOf(calls[c])[i] \notin RowIds(TableOf(calls[c], lists, tasks)))
             => e.last.status = 500
        /\ e.last.status # 200 => (e.lists = lists /\ e.tasks = tasks)

\* C13 witness: a task-reorder of two tasks was answered 500 after one of
\* them was deleted, and the other is still where the order would have
\* moved it from.
C13_Witness ==
  \E c \in Conns :
    /\ calls[c].pc = "done"
    /\ calls[c].op = "taskReorder"
    /\ calls[c].resp.status = 500
    /\ \E t \in tasks :
         /\ OrderOf(calls[c])[1] = t.id
         /\ Len(OrderOf(calls[c])) = 2
         /\ t.position = 1

\* The rows of the table that the order ids lists are at the positions of
\* their indexes in ids
FollowsOrder(rows, ids) ==
  \A i \in 1..Len(ids) : \A r \in rows : r.id = ids[i] => r.position = i - 1

\* Two reorders of the same ids in one scope that have both answered 200
SameScopeReorders ==
  /\ calls[1].pc = "done" /\ calls[2].pc = "done"
  /\ calls[1].resp.status = 200 /\ calls[2].resp.status = 200
  /\ calls[1].op = calls[2].op
  /\ calls[1].op \in {"listReorder", "taskReorder"}
  /\ calls[1].resp.caller = calls[2].resp.caller
  /\ calls[1].op = "taskReorder" => calls[1].req.body.listId = calls[2].req.body.listId
  /\ Listed(OrderOf(calls[1])) = Listed(OrderOf(calls[2]))

\* C14: concurrent reorders do not mix.  When two concurrent reorders of the
\* same ids in one scope have both succeeded, the rows are at the positions
\* of one of the two submitted orders; and the transaction of a reorder in
\* flight, when it commits, writes the positions of its whole order in one
\* step, so that no state of the store, and no read, holds a part of it.
C14_ConcurrentReordersDoNotMix ==
  /\ SameScopeReorders =>
       \/ FollowsOrder(TableOf(calls[1], lists, tasks), OrderOf(calls[1]))
       \/ FollowsOrder(TableOf(calls[2], lists, tasks), OrderOf(calls[2]))
  /\ \A c \in Conns :
       calls[c].pc = "commit" =>
         \A e \in {CommitEffect(c)} :
           e.last.status = 200 =>
             FollowsOrder(TableOf(calls[c], e.lists, e.tasks), OrderOf(calls[c]))

\* C14 witness: two task-reorders of the same two tasks into one list, in
\* opposite orders, have both succeeded and both tasks are in the store.
C14_Witness ==
  /\ SameScopeReorders
  /\ calls[1].op = "taskReorder"
  /\ OrderOf(calls[1]) # OrderOf(calls[2])
  /\ Len(OrderOf(calls[1])) = 2
  /\ Listed(OrderOf(calls[1])) \subseteq RowIds(tasks)

====
